---- MODULE Spec2Model ----
(***************************************************************************)
(* OmniStream telemetry agent: the bounded blocking queue                  *)
(* (src/src/thread_safe_queue.hpp) and the threads that use it.            *)
(*                                                                         *)
(* Two families of specifications share the queue's steps:                 *)
(*   Spec / FairSpec          three threads call push, pop and shutdown in  *)
(*                            any interleaving (the queue's contract);      *)
(*   Pipeline / FairPipeline  main.cpp: the physics thread, the network     *)
(*                            thread and main, with the signal handler.     *)
(*                                                                         *)
(* A thread's pc is its place in the code. A queue method returns by moving *)
(* the thread to the place its caller continues at (AfterPush, AfterPop,    *)
(* AfterSize, AfterShutdown), which depends on the value returned.          *)
(***************************************************************************)
EXTENDS Integers, Sequences, FiniteSets, Bags, TLC

\* ---------------------------------------------------------------- bounds
\* capacity_ is a constructor argument (thread_safe_queue.hpp:14; main.cpp:91
\* takes the default); the model runs the queue with a small capacity so that
\* "full" is reached.
Capacity == 2
\* Calls of push, pop and shutdown made in Spec / FairSpec, all together.
MaxCalls == 5
\* Spurious wake-ups of a condition variable wait, over a whole run.
MaxSpurious == 1
\* Packets generated by the physics thread before the signal, and signals
\* delivered, in Pipeline / FairPipeline.
MaxTicks == 4
MaxSignals == 2

\* The threads of Spec / FairSpec.
CallerIds == {"t1", "t2", "t3"}

\* The threads of Pipeline / FairPipeline.
PipelineIds == {"main", "physics", "network"}

\* The period of the physics thread's progress line (main.cpp:32).
LogEvery == 60

\* -------------------------------------------------------------- state
VARIABLES
  queue_,      \* std::queue<T> queue_: the items, oldest first
  shutdown_,   \* bool shutdown_
  mutex_,      \* std::mutex mutex_: the set holding its owner ({} when free)
  not_empty_,  \* condition variable: the threads waiting on it
  not_full_,   \* condition variable: the threads waiting on it
  pc,          \* per thread: its place in the code
  item,        \* per thread: push's parameter / pop's local, <<>> or <<x>>
  spurious,    \* spurious wake-ups so far
  calls,       \* push / pop / shutdown calls made so far by the threads of Spec
  running,     \* std::atomic<bool> running (main.cpp:14)
  simulate,    \* bool simulate (main.cpp:67, 75-76)
  tick_,       \* SensorGenerator::tick_
  connected_,  \* NetworkClient::connected_
  sent_,       \* NetworkClient::sent_
  streaming,   \* the network thread is inside NetworkClient::stream's loop
  signals,     \* signals delivered so far
  reachable,   \* environment: a server answers at address_ (never read by the code)
  writes,      \* history: stream->Write calls, tried and succeeded
  accepted,    \* history: items appended by push, in the order of line 25
  popped,      \* history: items removed by pop, in the order of line 39
  pushDone,    \* history: items whose push returned true, in the order of the returns
  popDone,     \* history: items returned by pop, in the order of the returns
  rejected,    \* history: items whose push returned false
  waited,      \* history: items whose push has waited on not_full_
  eosSeen,     \* history: some pop has returned std::nullopt
  atClose,     \* history: <<>> until shutdown_ is first set, then <<what held then>>
  atFlip       \* history: <<>> until running is first set to false, then <<what held then>>

qvars == <<queue_, shutdown_, mutex_, not_empty_, not_full_>>
pvars ==
  <<running, simulate, tick_, connected_, sent_, streaming, signals, reachable, writes>>
hvars ==
  <<accepted, popped, pushDone, popDone, rejected, waited, eosSeen, atClose, atFlip>>
vars == <<qvars, pc, item, spurious, calls, pvars, hvars>>

Threads == DOMAIN pc

TotalCalls == calls.push + calls.pop + calls.shutdown

Range(s) == {s[i] : i \in 1..Len(s)}

IsPrefix(s, t) == Len(s) <= Len(t) /\ SubSeq(t, 1, Len(s)) = s

\* ------------------------------------------------------ return addresses
\* A producer that ignores what push returns.
AfterPush_noBreak(t, ok) ==
  IF t = "physics"
    THEN IF tick_ % LogEvery = 0 THEN "size" ELSE "physics_sleep"
    ELSE "idle"

\* physics_thread: `if (!queue.push(...)) break;` (main.cpp:29-30), then the
\* progress line of lines 32-35, which calls queue.size().
AfterPush(t, ok) ==
  IF t = "physics"
    THEN IF ~ok THEN "physics_stopped"
         ELSE IF tick_ % LogEvery = 0 THEN "size" ELSE "physics_sleep"
    ELSE "idle"

\* A consumer loop that also ends when it sees running false.
AfterPop_checksFlag(t, r) ==
  IF t = "network"
    THEN IF streaming
           THEN IF r = <<>> \/ ~running THEN "stream_close" ELSE "stream_write"
           ELSE IF r = <<>> \/ ~running THEN "network_done" ELSE "size"
    ELSE "idle"

\* NetworkClient::stream (network_client.hpp:39-45) and NetworkClient::simulate
\* (54-58): the loop ends on nullopt; log_progress's argument queue.size() is
\* evaluated first in simulate, stream writes first.
AfterPop(t, r) ==
  IF t = "network"
    THEN IF streaming
           THEN IF r = <<>> THEN "stream_close" ELSE "stream_write"
           ELSE IF r = <<>> THEN "network_done" ELSE "size"
    ELSE "idle"

\* log_progress(queue.size()) (network_client.hpp:42, 55); main.cpp:34.
AfterSize(t) ==
  IF t = "network" THEN "log_progress"
  ELSE IF t = "physics" THEN "physics_sleep"
  ELSE "idle"

\* main.cpp:100-101.
AfterShutdown(t) == IF t = "main" THEN "join_physics" ELSE "idle"

\* ------------------------------------------------ ThreadSafeQueue::push
\* A wait predicate that forgets the shutdown flag.
NotFullPred_noShutdown == Len(queue_) < Capacity

\* A wait predicate that lets a push through when the queue is already full.
NotFullPred_offByOne == Len(queue_) <= Capacity \/ shutdown_

\* The predicate of not_full_.wait (line 20).
NotFullPred == Len(queue_) < Capacity \/ shutdown_

\* The predicate of not_empty_.wait (line 33).
NotEmptyPred == queue_ /= <<>> \/ shutdown_

\* std::unique_lock lock(mutex_): line 18, and the re-acquisition of the mutex
\* by a waiter of not_full_ that was woken (inside wait, line 19).
push_lock(t) ==
  /\ pc[t] = "push_lock"
  /\ mutex_ = {}
  /\ mutex_' = {t}
  /\ pc' = [pc EXCEPT ![t] = "push_cs"]
  /\ UNCHANGED <<queue_, shutdown_, not_empty_, not_full_, item, spurious, calls,
                 pvars, hvars>>

\* A test of the flag made only by a push that found the queue full.
PushRefused_onlyWhenFull == shutdown_ /\ Len(queue_) >= Capacity

\* The test of line 22.
PushRefused == shutdown_

\* A push that puts the item at the front.
Enqueue_front(q, x) == <<x>> \o q

\* queue_.push(std::move(item)): line 25.
Enqueue(q, x) == Append(q, x)

\* Lines 19-26, with the mutex held. not_full_.wait(lock, pred): when the
\* predicate is false the thread releases the mutex and joins the waiters in one
\* step. When it is true: return false if shut down, else append and unlock.
push_cs(t) ==
  /\ pc[t] = "push_cs"
  /\ mutex_' = {}
  /\ IF ~NotFullPred
       THEN /\ pc' = [pc EXCEPT ![t] = "push_blocked"]
            /\ not_full_' = not_full_ \cup {t}
            /\ waited' = waited \cup Range(item[t])
            /\ UNCHANGED <<queue_, accepted, rejected, item>>
       ELSE /\ UNCHANGED <<not_full_, waited>>
            /\ IF PushRefused
                 THEN /\ rejected' = rejected \cup Range(item[t])
                      /\ item' = [item EXCEPT ![t] = <<>>]
                      /\ pc' = [pc EXCEPT ![t] = AfterPush(t, FALSE)]
                      /\ UNCHANGED <<queue_, accepted>>
                 ELSE /\ queue_' = Enqueue(queue_, item[t][1])
                      /\ accepted' = Append(accepted, item[t][1])
                      /\ pc' = [pc EXCEPT ![t] = "push_notify"]
                      /\ UNCHANGED <<rejected, item>>
  /\ UNCHANGED <<shutdown_, not_empty_, spurious, calls, pvars,
                 popped, pushDone, popDone, eosSeen, atClose, atFlip>>

\* A notify_one that is left out.
NotifyOne_none(waiters) == {}

\* The waiters a notify_one on a condition variable may wake: any one of them.
NotifyOne(waiters) == waiters

\* Lines 27-28: not_empty_.notify_one() wakes one waiter if there is one; return true.
push_notify(t) ==
  /\ pc[t] = "push_notify"
  /\ \E w \in (IF NotifyOne(not_empty_) = {} THEN {t} ELSE NotifyOne(not_empty_)) :
       /\ not_empty_' = not_empty_ \ {w}
       /\ pc' = [pc EXCEPT ![t] = AfterPush(t, TRUE),
                           ![w] = IF w = t THEN AfterPush(t, TRUE) ELSE "pop_lock"]
  /\ pushDone' = Append(pushDone, item[t][1])
  /\ item' = [item EXCEPT ![t] = <<>>]
  /\ UNCHANGED <<queue_, shutdown_, mutex_, not_full_, spurious, calls, pvars,
                 accepted, popped, popDone, rejected, waited, eosSeen, atClose, atFlip>>

\* ------------------------------------------------- ThreadSafeQueue::pop
\* std::unique_lock lock(mutex_): line 32, and the re-acquisition of the mutex
\* by a waiter of not_empty_ that was woken (inside wait, line 33).
pop_lock(t) ==
  /\ pc[t] = "pop_lock"
  /\ mutex_ = {}
  /\ mutex_' = {t}
  /\ pc' = [pc EXCEPT ![t] = "pop_cs"]
  /\ UNCHANGED <<queue_, shutdown_, not_empty_, not_full_, item, spurious, calls,
                 pvars, hvars>>

\* An end-of-stream test that forgets the pending items.
EndOfStreamCond_noDrain == shutdown_

\* The test of line 35.
EndOfStreamCond == shutdown_ /\ queue_ = <<>>

\* A pop that returns the front item and leaves it in the queue.
Dequeue_keep(q) == q

\* queue_.pop(): line 39.
Dequeue(q) == Tail(q)

\* Lines 33-40, with the mutex held. not_empty_.wait(lock, pred), then: return
\* nullopt when shut down and empty, else take the front item and unlock.
pop_cs(t) ==
  /\ pc[t] = "pop_cs"
  /\ mutex_' = {}
  /\ IF ~NotEmptyPred
       THEN /\ pc' = [pc EXCEPT ![t] = "pop_blocked"]
            /\ not_empty_' = not_empty_ \cup {t}
            /\ UNCHANGED <<queue_, popped, item, eosSeen>>
       ELSE /\ UNCHANGED not_empty_
            /\ IF EndOfStreamCond
                 THEN /\ eosSeen' = TRUE
                      /\ pc' = [pc EXCEPT ![t] = AfterPop(t, <<>>)]
                      /\ UNCHANGED <<queue_, popped, item>>
                 ELSE /\ queue_ /= <<>>
                      /\ item' = [item EXCEPT ![t] = <<Head(queue_)>>]
                      /\ queue_' = Dequeue(queue_)
                      /\ popped' = Append(popped, Head(queue_))
                      /\ pc' = [pc EXCEPT ![t] = "pop_notify"]
                      /\ UNCHANGED eosSeen
  /\ UNCHANGED <<shutdown_, not_full_, spurious, calls, pvars,
                 accepted, pushDone, popDone, rejected, waited, atClose, atFlip>>

\* Lines 41-42: not_full_.notify_one() wakes one waiter if there is one; return item.
pop_notify(t) ==
  /\ pc[t] = "pop_notify"
  /\ \E w \in (IF NotifyOne(not_full_) = {} THEN {t} ELSE NotifyOne(not_full_)) :
       /\ not_full_' = not_full_ \ {w}
       /\ pc' = [pc EXCEPT ![t] = AfterPop(t, item[t]),
                           ![w] = IF w = t THEN AfterPop(t, item[t]) ELSE "push_lock"]
  /\ popDone' = Append(popDone, item[t][1])
  /\ item' = [item EXCEPT ![t] = <<>>]
  /\ UNCHANGED <<queue_, shutdown_, mutex_, not_empty_, spurious, calls, pvars,
                 accepted, popped, pushDone, rejected, waited, eosSeen, atClose, atFlip>>

\* -------------------------------------------- ThreadSafeQueue::shutdown
\* What the history keeps of the state in which shutdown_ is first set: the
\* queue, the number of items popped so far and the items held by the pushes
\* waiting on not_full_.
CloseRecord ==
  [q        |-> queue_,
   npopped  |-> Len(popped),
   items    |-> UNION {Range(item[t]) : t \in not_full_}]

\* A shutdown that flips the flag.
ShutdownValue_toggle == ~shutdown_

\* The value shutdown() stores into shutdown_ (line 48).
ShutdownValue == TRUE

\* Lines 46-49: lock_guard, shutdown_ = true, unlock.
shutdown_set(t) ==
  /\ pc[t] = "shutdown_set"
  /\ mutex_ = {}
  /\ shutdown_' = ShutdownValue
  /\ atClose' = IF atClose = <<>> THEN <<CloseRecord>> ELSE atClose
  /\ pc' = [pc EXCEPT ![t] = "shutdown_notify_empty"]
  /\ UNCHANGED <<queue_, mutex_, not_empty_, not_full_, item, spurious, calls, pvars,
                 accepted, popped, pushDone, popDone, rejected, waited, eosSeen, atFlip>>

\* A notify_all that is left out.
NotifyAll_none(waiters) == {}

\* The waiters a notify_all on a condition variable wakes: all of them.
NotifyAll(waiters) == waiters

\* Line 50: not_empty_.notify_all().
shutdown_notify_empty(t) ==
  /\ pc[t] = "shutdown_notify_empty"
  /\ not_empty_' = not_empty_ \ NotifyAll(not_empty_)
  /\ pc' = [u \in Threads |->
              IF u = t THEN "shutdown_notify_full"
              ELSE IF u \in NotifyAll(not_empty_) THEN "pop_lock" ELSE pc[u]]
  /\ UNCHANGED <<queue_, shutdown_, mutex_, not_full_, item, spurious, calls,
                 pvars, hvars>>

\* Line 51: not_full_.notify_all(); return.
shutdown_notify_full(t) ==
  /\ pc[t] = "shutdown_notify_full"
  /\ not_full_' = not_full_ \ NotifyAll(not_full_)
  /\ pc' = [u \in Threads |->
              IF u = t THEN AfterShutdown(t)
              ELSE IF u \in NotifyAll(not_full_) THEN "push_lock" ELSE pc[u]]
  /\ UNCHANGED <<queue_, shutdown_, mutex_, not_empty_, item, spurious, calls,
                 pvars, hvars>>

\* ------------------------------------------------ ThreadSafeQueue::size
\* Lines 54-57: lock_guard, read queue_.size(), unlock. The value is only printed.
size(t) ==
  /\ pc[t] = "size"
  /\ mutex_ = {}
  /\ pc' = [pc EXCEPT ![t] = AfterSize(t)]
  /\ UNCHANGED <<qvars, item, spurious, calls, pvars, hvars>>

\* ------------------------------------------------ std::condition_variable
\* A wait may return without a notification (a spurious wake-up); the waiter
\* then takes the mutex and re-evaluates its predicate like any woken waiter.
SpuriousWake(t) ==
  /\ spurious < MaxSpurious
  /\ spurious' = spurious + 1
  /\ \/ /\ t \in not_full_
        /\ not_full_' = not_full_ \ {t}
        /\ pc' = [pc EXCEPT ![t] = "push_lock"]
        /\ UNCHANGED not_empty_
     \/ /\ t \in not_empty_
        /\ not_empty_' = not_empty_ \ {t}
        /\ pc' = [pc EXCEPT ![t] = "pop_lock"]
        /\ UNCHANGED not_full_
  /\ UNCHANGED <<queue_, shutdown_, mutex_, item, calls, pvars, hvars>>

\* One step of thread t inside a queue method.
QueueStep(t) ==
  \/ push_lock(t) \/ push_cs(t) \/ push_notify(t)
  \/ pop_lock(t) \/ pop_cs(t) \/ pop_notify(t)
  \/ shutdown_set(t) \/ shutdown_notify_empty(t) \/ shutdown_notify_full(t)
  \/ size(t)

\* ------------------------------------------------- the queue's callers
\* A thread outside the queue calls push with a fresh item.
CallPush(t) ==
  /\ pc[t] = "idle"
  /\ TotalCalls < MaxCalls
  /\ calls' = [calls EXCEPT !.push = @ + 1]
  /\ item' = [item EXCEPT ![t] = <<calls.push + 1>>]
  /\ pc' = [pc EXCEPT ![t] = "push_lock"]
  /\ UNCHANGED <<qvars, spurious, pvars, hvars>>

CallPop(t) ==
  /\ pc[t] = "idle"
  /\ TotalCalls < MaxCalls
  /\ calls' = [calls EXCEPT !.pop = @ + 1]
  /\ pc' = [pc EXCEPT ![t] = "pop_lock"]
  /\ UNCHANGED <<qvars, item, spurious, pvars, hvars>>

CallShutdown(t) ==
  /\ pc[t] = "idle"
  /\ TotalCalls < MaxCalls
  /\ calls' = [calls EXCEPT !.shutdown = @ + 1]
  /\ pc' = [pc EXCEPT ![t] = "shutdown_set"]
  /\ UNCHANGED <<qvars, item, spurious, pvars, hvars>>

\* The queue as constructed (lines 14-15), with empty histories.
QueueInit ==
  /\ queue_ = <<>>
  /\ shutdown_ = FALSE
  /\ mutex_ = {}
  /\ not_empty_ = {}
  /\ not_full_ = {}
  /\ spurious = 0
  /\ calls = [push |-> 0, pop |-> 0, shutdown |-> 0]
  /\ accepted = <<>>
  /\ popped = <<>>
  /\ pushDone = <<>>
  /\ popDone = <<>>
  /\ rejected = {}
  /\ waited = {}
  /\ eosSeen = FALSE
  /\ atClose = <<>>
  /\ atFlip = <<>>

\* The process as started (main.cpp:14, 65-67), before NetworkClient and
\* SensorGenerator are constructed (network_client.hpp:19, sensor_generator.hpp:18).
ProcessInit ==
  /\ running = TRUE
  /\ tick_ = 0
  /\ connected_ = FALSE
  /\ sent_ = 0
  /\ streaming = FALSE
  /\ signals = 0
  /\ writes = [tried |-> 0, ok |-> 0]

Init ==
  /\ QueueInit
  /\ ProcessInit
  /\ simulate = TRUE
  /\ reachable = TRUE
  /\ pc = [t \in CallerIds |-> "idle"]
  /\ item = [t \in CallerIds |-> <<>>]

Next ==
  \/ \E t \in Threads : CallPush(t)
  \/ \E t \in Threads : CallPop(t)
  \/ \E t \in Threads : CallShutdown(t)
  \/ \E t \in Threads : push_lock(t)
  \/ \E t \in Threads : push_cs(t)
  \/ \E t \in Threads : push_notify(t)
  \/ \E t \in Threads : pop_lock(t)
  \/ \E t \in Threads : pop_cs(t)
  \/ \E t \in Threads : pop_notify(t)
  \/ \E t \in Threads : shutdown_set(t)
  \/ \E t \in Threads : shutdown_notify_empty(t)
  \/ \E t \in Threads : shutdown_notify_full(t)
  \/ \E t \in Threads : SpuriousWake(t)

Spec == Init /\ [][Next]_vars

\* ------------------------------------------------------------ main.cpp
\* What the history keeps of the state in which running is first set to false:
\* the pushes that have taken effect and the pushes that have returned true.
FlipRecord == [naccepted |-> Len(accepted), npushed |-> Len(pushDone)]

\* A handler that flips the flag on every signal.
on_signal_toggle ==
  /\ signals < MaxSignals
  /\ signals' = signals + 1
  /\ running' = ~running
  /\ atFlip' = IF atFlip = <<>> THEN <<FlipRecord>> ELSE atFlip
  /\ UNCHANGED <<qvars, pc, item, spurious, calls, simulate, tick_, connected_, sent_,
                 streaming, reachable, writes, accepted, popped, pushDone, popDone,
                 rejected, waited, eosSeen, atClose>>

\* on_signal (lines 16-19), installed for SIGINT and SIGTERM (lines 88-89).
on_signal ==
  /\ signals < MaxSignals
  /\ signals' = signals + 1
  /\ running' = FALSE
  /\ atFlip' = IF atFlip = <<>> THEN <<FlipRecord>> ELSE atFlip
  /\ UNCHANGED <<qvars, pc, item, spurious, calls, simulate, tick_, connected_, sent_,
                 streaming, reachable, writes, accepted, popped, pushDone, popDone,
                 rejected, waited, eosSeen, atClose>>

\* Line 93: std::thread physics(physics_thread, ...).
main_spawn_physics ==
  /\ pc["main"] = "spawn_physics"
  /\ pc' = [pc EXCEPT !["main"] = "spawn_network", !["physics"] = "physics_while"]
  /\ UNCHANGED <<qvars, item, spurious, calls, pvars, hvars>>

\* Line 94: std::thread network(network_thread, ...).
main_spawn_network ==
  /\ pc["main"] = "spawn_network"
  /\ pc' = [pc EXCEPT !["main"] = "poll", !["network"] = "network_start"]
  /\ UNCHANGED <<qvars, item, spurious, calls, pvars, hvars>>

\* A main that joins the workers without shutting the queue down.
main_poll_noShutdown ==
  /\ pc["main"] = "poll"
  /\ pc' = [pc EXCEPT !["main"] = IF running THEN "poll" ELSE "join_physics"]
  /\ UNCHANGED <<qvars, item, spurious, calls, pvars, hvars>>

\* Lines 96-100: while (running) sleep 100 ms; then queue.shutdown().
main_poll ==
  /\ pc["main"] = "poll"
  /\ pc' = [pc EXCEPT !["main"] = IF running THEN "poll" ELSE "shutdown_set"]
  /\ UNCHANGED <<qvars, item, spurious, calls, pvars, hvars>>

\* A join that returns while the physics thread is still running.
main_join_physics_noWait ==
  /\ pc["main"] = "join_physics"
  /\ pc' = [pc EXCEPT !["main"] = "join_network"]
  /\ UNCHANGED <<qvars, item, spurious, calls, pvars, hvars>>

\* Line 101: physics.join().
main_join_physics ==
  /\ pc["main"] = "join_physics"
  /\ pc["physics"] = "physics_stopped"
  /\ pc' = [pc EXCEPT !["main"] = "join_network"]
  /\ UNCHANGED <<qvars, item, spurious, calls, pvars, hvars>>

\* Lines 102-105: network.join(); "OmniStream stopped."
main_join_network ==
  /\ pc["main"] = "join_network"
  /\ pc["network"] = "network_done"
  /\ pc' = [pc EXCEPT !["main"] = "stopped"]
  /\ UNCHANGED <<qvars, item, spurious, calls, pvars, hvars>>

\* A producer loop that never reads running and ends only when push fails.
physics_while_ignoresFlag ==
  /\ pc["physics"] = "physics_while"
  /\ tick_ < MaxTicks
  /\ tick_' = tick_ + 1
  /\ item' = [item EXCEPT !["physics"] = <<tick_ + 1>>]
  /\ pc' = [pc EXCEPT !["physics"] = "push_lock"]
  /\ UNCHANGED <<qvars, spurious, calls, running, simulate, connected_, sent_,
                 streaming, signals, reachable, writes, hvars>>

\* physics_thread, lines 26-29: while (running) { queue.push(sensor.generate()) };
\* generate() increments tick_ (sensor_generator.hpp:35). Line 41 when the flag
\* is false.
physics_while ==
  /\ pc["physics"] = "physics_while"
  /\ IF running
       THEN /\ tick_ < MaxTicks
            /\ tick_' = tick_ + 1
            /\ item' = [item EXCEPT !["physics"] = <<tick_ + 1>>]
            /\ pc' = [pc EXCEPT !["physics"] = "push_lock"]
       ELSE /\ pc' = [pc EXCEPT !["physics"] = "physics_stopped"]
            /\ UNCHANGED <<tick_, item>>
  /\ UNCHANGED <<qvars, spurious, calls, running, simulate, connected_, sent_,
                 streaming, signals, reachable, writes, hvars>>

\* Lines 37-38: sleep for the rest of the frame.
physics_sleep ==
  /\ pc["physics"] = "physics_sleep"
  /\ pc' = [pc EXCEPT !["physics"] = "physics_while"]
  /\ UNCHANGED <<qvars, item, spurious, calls, pvars, hvars>>

\* ---------------------------------------------------- network_client.hpp
\* NetworkClient::connect (lines 21-28) creates the channel and the stub, sets
\* connected_ and returns true: it does not look at the channel's state, so its
\* result does not depend on reachable.
Connect == TRUE

\* network_thread (main.cpp:46-54): simulate, or connect and stream, or simulate
\* when connect fails; stream itself falls back to simulate when not connected
\* (network_client.hpp:31-34). Then the first pop of the loop (line 39 / 54).
network_start ==
  /\ pc["network"] = "network_start"
  /\ connected_' = IF simulate THEN connected_ ELSE Connect
  /\ streaming' = (~simulate /\ Connect /\ connected_')
  /\ pc' = [pc EXCEPT !["network"] = "pop_lock"]
  /\ UNCHANGED <<qvars, item, spurious, calls, running, simulate, tick_, sent_,
                 signals, reachable, writes, hvars>>

\* A loop that skips the packet whose write failed and goes on with the next pop.
stream_write_ignoreFailure ==
  /\ pc["network"] = "stream_write"
  /\ \E ok \in BOOLEAN :
       /\ writes' = [tried |-> writes.tried + 1,
                     ok    |-> writes.ok + (IF ok THEN 1 ELSE 0)]
       /\ pc' = [pc EXCEPT !["network"] = IF ok THEN "size" ELSE "pop_lock"]
  /\ UNCHANGED <<qvars, item, spurious, calls, running, simulate, tick_, connected_,
                 sent_, streaming, signals, reachable, hvars>>

\* stream->Write(**packet), line 40: the transport accepts the packet or not;
\* `break` when it does not, else log_progress(queue.size()).
stream_write ==
  /\ pc["network"] = "stream_write"
  /\ \E ok \in BOOLEAN :
       /\ writes' = [tried |-> writes.tried + 1,
                     ok    |-> writes.ok + (IF ok THEN 1 ELSE 0)]
       /\ pc' = [pc EXCEPT !["network"] = IF ok THEN "size" ELSE "stream_close"]
  /\ UNCHANGED <<qvars, item, spurious, calls, running, simulate, tick_, connected_,
                 sent_, streaming, signals, reachable, hvars>>

\* A log_progress that counts every item twice.
log_progress_twice ==
  /\ pc["network"] = "log_progress"
  /\ sent_' = sent_ + 2
  /\ pc' = [pc EXCEPT !["network"] = "pop_lock"]
  /\ UNCHANGED <<qvars, item, spurious, calls, running, simulate, tick_, connected_,
                 streaming, signals, reachable, writes, hvars>>

\* A log_progress that prints without counting.
log_progress_noCount ==
  /\ pc["network"] = "log_progress"
  /\ pc' = [pc EXCEPT !["network"] = "pop_lock"]
  /\ UNCHANGED <<qvars, item, spurious, calls, pvars, hvars>>

\* log_progress, lines 64-70: sent_++; then the loop's next pop.
log_progress ==
  /\ pc["network"] = "log_progress"
  /\ sent_' = sent_ + 1
  /\ pc' = [pc EXCEPT !["network"] = "pop_lock"]
  /\ UNCHANGED <<qvars, item, spurious, calls, running, simulate, tick_, connected_,
                 streaming, signals, reachable, writes, hvars>>

\* Lines 45-48: WritesDone, Finish, the status line; network_thread returns.
stream_close ==
  /\ pc["network"] = "stream_close"
  /\ pc' = [pc EXCEPT !["network"] = "network_done"]
  /\ UNCHANGED <<qvars, item, spurious, calls, pvars, hvars>>

MainStep ==
  \/ main_spawn_physics \/ main_spawn_network \/ main_poll
  \/ main_join_physics \/ main_join_network
  \/ QueueStep("main")

PhysicsStep == physics_while \/ physics_sleep \/ QueueStep("physics")

NetworkStep ==
  \/ network_start \/ stream_write \/ log_progress \/ stream_close
  \/ QueueStep("network")

\* The process after main.cpp:91: handlers installed, the queue constructed,
\* no thread started; --real given or not, a server listening or not.
PipelineInit ==
  /\ QueueInit
  /\ ProcessInit
  /\ simulate \in BOOLEAN
  /\ reachable \in BOOLEAN
  /\ pc = [t \in PipelineIds |->
             IF t = "main" THEN "spawn_physics" ELSE "unstarted"]
  /\ item = [t \in PipelineIds |-> <<>>]

PipelineNext ==
  \/ on_signal
  \/ main_spawn_physics
  \/ main_spawn_network
  \/ main_poll
  \/ main_join_physics
  \/ main_join_network
  \/ physics_while
  \/ physics_sleep
  \/ network_start
  \/ stream_write
  \/ log_progress
  \/ stream_close
  \/ \E t \in Threads : push_lock(t)
  \/ \E t \in Threads : push_cs(t)
  \/ \E t \in Threads : push_notify(t)
  \/ \E t \in Threads : pop_lock(t)
  \/ \E t \in Threads : pop_cs(t)
  \/ \E t \in Threads : pop_notify(t)
  \/ \E t \in Threads : shutdown_set(t)
  \/ \E t \in Threads : shutdown_notify_empty(t)
  \/ \E t \in Threads : shutdown_notify_full(t)
  \/ \E t \in Threads : size(t)
  \/ \E t \in Threads : SpuriousWake(t)

Pipeline == PipelineInit /\ [][PipelineNext]_vars

\* The threads inside a queue method go on: as long as one of them can take a
\* step, a step is taken. Nothing obliges a thread to call the queue, nor a wait
\* to wake spuriously.
FairSpec == Spec /\ WF_vars(\E t \in CallerIds : QueueStep(t))

\* The three threads of the process are scheduled whenever they can take a
\* step, and every transport call returns. No signal is obliged to arrive.
FairPipeline ==
  Pipeline /\ WF_vars(MainStep) /\ WF_vars(PhysicsStep) /\ WF_vars(NetworkStep)

\* ============================================================== claims
SeqToBag(s) == [x \in Range(s) |-> Cardinality({i \in 1..Len(s) : s[i] = x})]

NoDuplicates(s) == \A i, j \in 1..Len(s) : s[i] = s[j] => i = j

\* No thread is inside a queue method.
Quiescent == \A t \in Threads : pc[t] = "idle"

\* C1 (as stated), read where it is most favourable, in the states with no call
\* in flight: the items returned by pop, in the order the pops returned, are a
\* prefix of the items whose push returned true, in the order those pushes
\* returned.
C1_PrefixByReturnOrder == Quiescent => IsPrefix(popDone, pushDone)

\* C1 (amended): the items removed by pop, in the order the pops remove them
\* under the mutex, followed by the items still queued, are exactly the items
\* appended by push in the order the pushes appended them under the mutex, each
\* once: nothing is reordered, duplicated or skipped.
C1_Fifo == accepted = popped \o queue_ /\ NoDuplicates(accepted)

\* Two items were accepted in the opposite order of their push calls (the two
\* pushes overlapped), and both were popped in the order of acceptance.
C1_Witness == Len(popped) >= 2 /\ popped[1] > popped[2]

\* C2: the queue never holds more than Capacity items.
C2_Bounded == Len(queue_) \in 0..Capacity

\* The queue is full again while a push that had waited is back at the mutex,
\* and another push waits.
C2_Witness ==
  /\ Len(queue_) = Capacity
  /\ not_full_ /= {}
  /\ \E t \in Threads : pc[t] = "push_lock" /\ Range(item[t]) \subseteq waited

\* C3: from the moment shutdown_ is set, the items popped since then followed by
\* the items still queued are the items the queue held at that moment, in
\* order; and pop has returned nullopt only with the queue shut down and empty.
C3_DrainBeforeEnd ==
  /\ atClose /= <<>> =>
       atClose[1].q = SubSeq(popped, atClose[1].npopped + 1, Len(popped)) \o queue_
  /\ eosSeen => (shutdown_ /\ queue_ = <<>>)

\* The queue held items when it was shut down, they were all popped, and a
\* further pop returned nullopt.
C3_Witness ==
  /\ atClose /= <<>>
  /\ atClose[1].q /= <<>>
  /\ Len(popped) = atClose[1].npopped + Len(atClose[1].q)
  /\ eosSeen

\* C4: a push that was waiting on not_full_ when shutdown_ was set never has
\* its item appended; a pop that finds the queue shut down and empty returns
\* nullopt; and once the queue is shut down, again and again no thread is inside
\* a queue method and every push that was waiting has returned false: no thread
\* stays blocked in push or pop.
C4_ShutdownReleases ==
  /\ [][/\ atClose' /= <<>> => atClose'[1].items \cap Range(accepted') = {}
        /\ \A t \in CallerIds :
             (pc[t] = "pop_cs" /\ pc'[t] /= "pop_cs" /\ shutdown_ /\ queue_ = <<>>)
                => (pc'[t] = "idle" /\ eosSeen')]_vars
  /\ []<>(shutdown_ =>
            (Quiescent /\ atClose /= <<>> /\ atClose[1].items \subseteq rejected))

\* A push was waiting on the full queue when it was shut down, and has
\* returned false.
C4_Witness ==
  /\ atClose /= <<>>
  /\ atClose[1].items /= {}
  /\ Len(atClose[1].q) = Capacity
  /\ atClose[1].items \subseteq rejected

\* C5: once the running flag is false the pipeline reaches Stopped: main has
\* shut the queue down and joined both workers.
C5_ReachesStopped == (~running) ~> (pc["main"] = "stopped")

\* Stopped is reached in Live mode after a write failed, with the physics thread
\* having been blocked in push on the full queue when the queue was shut down.
C5_Witness ==
  /\ pc["main"] = "stopped"
  /\ ~simulate
  /\ writes.tried > writes.ok
  /\ atClose /= <<>>
  /\ Len(atClose[1].q) = Capacity
  /\ atClose[1].items /= {}

\* C6 (as stated): in every reachable state the items returned by pop together
\* with the items in the queue are, as multisets, the items whose push returned
\* true.
C6_ConservedByReturn == SeqToBag(popDone) (+) SeqToBag(queue_) = SeqToBag(pushDone)

\* C6 (amended): in every reachable state the items removed by pop together
\* with the items in the queue are, as multisets, the items appended by push;
\* when no call is in flight these are the items returned by pop and the items
\* whose push returned true; so after shutdown and a full drain the items
\* returned by pop are the items whose push returned true.
C6_Conserved ==
  /\ SeqToBag(popped) (+) SeqToBag(queue_) = SeqToBag(accepted)
  /\ Quiescent =>
       /\ SeqToBag(popDone) = SeqToBag(popped)
       /\ SeqToBag(pushDone) = SeqToBag(accepted)
       /\ (shutdown_ /\ queue_ = <<>>) => SeqToBag(popDone) = SeqToBag(pushDone)

\* Two overlapping pushes were accepted, the queue was shut down and drained,
\* and no call is in flight.
C6_Witness ==
  /\ Quiescent
  /\ shutdown_
  /\ queue_ = <<>>
  /\ accepted = <<2, 1>>
  /\ Len(popDone) = 2

\* A thread is inside push, its item not yet appended.
InPush(t) == pc[t] \in {"push_lock", "push_cs", "push_blocked"}

\* A thread is inside pop, no item taken yet.
InPop(t) == pc[t] \in {"pop_lock", "pop_cs", "pop_blocked"}

\* C7: on an open queue no thread stays inside push for ever while the queue has
\* room, and no thread stays inside pop for ever while the queue holds an item:
\* again and again, no thread is in either situation.
C7_NoLostWakeup ==
  []<>~(\E t \in CallerIds :
          \/ InPush(t) /\ Len(queue_) < Capacity /\ ~shutdown_
          \/ InPop(t) /\ queue_ /= <<>> /\ ~shutdown_)

\* A push that had to wait on the full queue has returned true after a pop made
\* room, the queue still open.
C7_Witness ==
  /\ ~shutdown_
  /\ popDone /= <<>>
  /\ waited \cap Range(pushDone) /= {}

\* C8: a push that evaluates its wait predicate goes to wait exactly when the
\* queue is open and full, and otherwise goes on at once (appending when the
\* queue is open); a pop goes to wait exactly when the queue is open and empty,
\* and takes the front item at once when there is one. A waiting thread that
\* wakes goes back to the mutex and evaluates the predicate again, and a thread
\* leaves push or pop only from that evaluation.
C8_BlocksExactly ==
  [][\A t \in CallerIds :
       /\ (pc[t] = "push_cs" /\ pc'[t] /= "push_cs") =>
            /\ pc'[t] = "push_blocked" <=> (Len(queue_) = Capacity /\ ~shutdown_)
            /\ (Len(queue_) < Capacity /\ ~shutdown_) =>
                 (pc'[t] = "push_notify" /\ queue_' = Append(queue_, item[t][1]))
       /\ (pc[t] = "pop_cs" /\ pc'[t] /= "pop_cs") =>
            /\ pc'[t] = "pop_blocked" <=> (queue_ = <<>> /\ ~shutdown_)
            /\ queue_ /= <<>> =>
                 (pc'[t] = "pop_notify" /\ item'[t] = <<Head(queue_)>>)
       /\ (pc[t] = "push_blocked" /\ pc'[t] /= pc[t]) => pc'[t] = "push_lock"
       /\ (pc[t] = "pop_blocked" /\ pc'[t] /= pc[t]) => pc'[t] = "pop_lock"
       /\ (pc[t] = "push_lock" /\ pc'[t] /= pc[t]) => pc'[t] = "push_cs"
       /\ (pc[t] = "pop_lock" /\ pc'[t] /= pc[t]) => pc'[t] = "pop_cs"]_vars

\* A push waits on the full open queue after an earlier pop, while a pop that
\* found the queue empty had waited too.
C8_Witness ==
  /\ ~shutdown_
  /\ Len(queue_) = Capacity
  /\ not_full_ /= {}
  /\ popped /= <<>>

\* C9: a push that passes its wait on a shut-down queue returns false and leaves
\* the queue as it is, whatever room the queue has; once shutdown_ is set no item
\* is appended and the queue does not grow.
C9_ClosedRejects ==
  [][/\ \A t \in CallerIds :
          (pc[t] = "push_cs" /\ pc'[t] /= "push_cs" /\ shutdown_) =>
             (pc'[t] = "idle" /\ queue_' = queue_ /\ Range(item[t]) \subseteq rejected')
     /\ shutdown_ => (accepted' = accepted /\ Len(queue_') <= Len(queue_))]_vars

\* A push holds the mutex on a shut-down queue that pops have drained since.
C9_Witness ==
  /\ shutdown_
  /\ queue_ = <<>>
  /\ atClose[1].q /= <<>>
  /\ \E t \in Threads : pc[t] = "push_cs"

\* A thread is inside shutdown().
InShutdown(t) ==
  pc[t] \in {"shutdown_set", "shutdown_notify_empty", "shutdown_notify_full"}

\* Some call of shutdown() has returned.
ShutdownReturned ==
  calls.shutdown > Cardinality({t \in Threads : InShutdown(t)})

\* C10: shutdown_ is false at construction and never goes back to false; no
\* step of shutdown() touches the queue contents or what push and pop have done;
\* a step of shutdown() taken after an earlier call has returned changes nothing
\* but the caller's own place: the flag, the queue, the waiters and the other
\* threads stay as they are.
C10_ShutdownIdempotent ==
  /\ ~shutdown_
  /\ [][/\ shutdown_ => shutdown_'
        /\ \A t \in CallerIds :
             (InShutdown(t) /\ pc'[t] /= pc[t]) =>
                /\ UNCHANGED <<queue_, accepted, popped, pushDone, popDone, rejected, eosSeen>>
                /\ shutdown_'
                /\ ShutdownReturned =>
                     /\ UNCHANGED <<shutdown_, not_empty_, not_full_, item, atClose>>
                     /\ \A u \in CallerIds \ {t} : pc'[u] = pc[u]]_vars

\* A second call of shutdown() is about to store the flag, the first call
\* having returned with items still queued.
C10_Witness ==
  /\ ShutdownReturned
  /\ queue_ /= <<>>
  /\ \E t \in Threads : pc[t] = "shutdown_set"

\* The coordinator's state, read off main's place in the code: Starting until
\* both threads are spawned (main.cpp:91-94), Running in the loop of lines
\* 96-98, ShuttingDown from the exit of that loop to the second join (lines
\* 100-102), Stopped after it (lines 104-105).
CoordinatorState ==
  CASE pc["main"] \in {"spawn_physics", "spawn_network"} -> "Starting"
    [] pc["main"] = "poll" -> "Running"
    [] pc["main"] = "stopped" -> "Stopped"
    [] OTHER -> "ShuttingDown"

\* The transitions Starting -> Running -> ShuttingDown -> Stopped.
CoordinatorArcs ==
  {<<"Starting", "Running">>, <<"Running", "ShuttingDown">>,
   <<"ShuttingDown", "Stopped">>}

\* C11: the coordinator moves only along Starting -> Running -> ShuttingDown ->
\* Stopped; shutdown_ is set only by main, which enters shutdown() once, from
\* the poll loop, with running false and the queue still open; the queue is
\* never shut down while running is true; main joins only after shutdown();
\* at Stopped the queue is shut down and both workers have exited; and after
\* Stopped nothing changes but the count of signals delivered.
C11_Coordinator ==
  /\ [](/\ shutdown_ => ~running
        /\ \A t \in {"physics", "network"} : ~InShutdown(t)
        /\ pc["main"] \in {"join_physics", "join_network", "stopped"} => shutdown_
        /\ CoordinatorState = "Stopped" =>
             /\ shutdown_
             /\ pc["physics"] = "physics_stopped"
             /\ pc["network"] = "network_done")
  /\ [][/\ CoordinatorState' /= CoordinatorState =>
             <<CoordinatorState, CoordinatorState'>> \in CoordinatorArcs
        /\ shutdown_' /= shutdown_ => (pc["main"] = "shutdown_set" /\ ~running)
        /\ (pc'["main"] = "shutdown_set" /\ pc["main"] /= "shutdown_set") =>
             (pc["main"] = "poll" /\ ~running /\ ~shutdown_)
        /\ CoordinatorState = "Stopped" =>
             UNCHANGED <<qvars, pc, item, spurious, calls, running, simulate, tick_,
                         connected_, sent_, streaming, reachable, writes, hvars>>]_vars

\* Stopped is reached after a second signal, the producer having been blocked on
\* the full queue when main shut it down.
C11_Witness ==
  /\ CoordinatorState = "Stopped"
  /\ signals = 2
  /\ atClose[1].items /= {}

\* C12: at Stopped the queue is empty and every item whose push returned true
\* has been returned by pop, whatever the mode and whatever the transport did.
C12_DrainedAtStopped ==
  CoordinatorState = "Stopped" =>
    (queue_ = <<>> /\ SeqToBag(popDone) = SeqToBag(pushDone))

\* Some stream->Write has returned false.
WriteFailed == writes.tried > writes.ok

\* C13: the step on which a write fails leaves the queue and the sent counter
\* as they are and takes the consumer to the closing of the stream; from then
\* on there is no further write, no further pop and no further count, the
\* consumer is closing the stream or has exited, the item whose write failed is
\* not in the queue, and the sent counter counts the writes that succeeded, one
\* less than the items popped. The streaming consumer exits only through the
\* closing of the stream.
C13_WriteFailureStops ==
  /\ [](WriteFailed =>
          /\ pc["network"] \in {"stream_close", "network_done"}
          /\ popDone /= <<>>
          /\ popDone[Len(popDone)] \notin Range(queue_)
          /\ sent_ = writes.ok
          /\ Len(popDone) = sent_ + 1)
  /\ [][/\ WriteFailed =>
             UNCHANGED <<writes, popped, popDone, sent_>>
        /\ (~WriteFailed /\ WriteFailed') =>
             /\ pc["network"] = "stream_write"
             /\ pc'["network"] = "stream_close"
             /\ UNCHANGED <<queue_, accepted, popped, sent_>>
        /\ (streaming /\ pc'["network"] = "network_done" /\ pc["network"] /= "network_done")
             => pc["network"] = "stream_close"]_vars

\* After one write that succeeded a write failed; the consumer has closed the
\* stream and exited, leaving items in the queue.
C13_Witness ==
  /\ WriteFailed
  /\ writes.ok >= 1
  /\ pc["network"] = "network_done"
  /\ queue_ /= <<>>

\* C14: when Live mode is requested and no connection to the server can be
\* established, no transport write is attempted, and the consumer exits with a
\* sent count equal to the number of items it popped.
C14_ConnectionFallback ==
  (~simulate /\ ~reachable) =>
    /\ writes.tried = 0
    /\ pc["network"] = "network_done" => sent_ = Len(popDone)

\* C15: in Simulate mode no stream is opened and no write is attempted, and at
\* Stopped the sent counter is the number of items whose push returned true:
\* the items returned by pop are those items, in order, each once, and the
\* queue is empty.
C15_SimulateCounts ==
  simulate =>
    /\ writes.tried = 0
    /\ ~streaming
    /\ pc["network"] \notin {"stream_write", "stream_close"}
    /\ CoordinatorState = "Stopped" =>
         /\ sent_ = Len(pushDone)
         /\ popDone = pushDone
         /\ NoDuplicates(popDone)
         /\ queue_ = <<>>

\* Simulate mode has stopped after at least three items were counted, the
\* producer having waited on the full queue at some point.
C15_Witness ==
  /\ simulate
  /\ CoordinatorState = "Stopped"
  /\ sent_ >= 3
  /\ waited /= {}

\* C16: running is true at startup; it changes only on the delivery of a
\* signal, never from false to true; a signal delivered when it is already
\* false changes nothing but the count of signals delivered.
C16_RunningOneWay ==
  /\ running = TRUE
  /\ [][/\ ~running => ~running'
        /\ running' /= running => signals' = signals + 1
        /\ (signals' /= signals /\ ~running) =>
             UNCHANGED <<qvars, pc, item, spurious, calls, running, simulate, tick_,
                         connected_, sent_, streaming, reachable, writes, hvars>>]_vars

\* A second signal has been delivered while main was still in its poll loop.
C16_Witness ==
  /\ signals >= 2
  /\ ~running
  /\ CoordinatorState = "Running"

\* C17: the producer reaches its exit only from the top of the loop with running
\* false or from a push that returns false, and a push that returns false
\* takes it there at once; once there it stays, and generates and pushes no
\* more. Every call of the generator adds one to tick_ and is followed by a
\* push. At the exit tick_ is the number of pushes that returned true when no
\* push returned false, and one more when the last push returned false.
C17_ProducerExit ==
  /\ [](/\ Cardinality(rejected) <= 1
        /\ pc["physics"] = "physics_stopped" =>
             \/ rejected = {} /\ tick_ = Len(pushDone) /\ ~running
             \/ rejected = {tick_} /\ tick_ = Len(pushDone) + 1 /\ shutdown_)
  /\ [][/\ (pc'["physics"] = "physics_stopped" /\ pc["physics"] /= "physics_stopped") =>
             \/ pc["physics"] = "physics_while" /\ ~running
             \/ pc["physics"] = "push_cs" /\ shutdown_
        /\ (pc["physics"] = "push_cs" /\ pc'["physics"] /= "push_cs" /\ shutdown_) =>
             pc'["physics"] = "physics_stopped"
        /\ pc["physics"] = "physics_stopped" =>
             /\ pc'["physics"] = "physics_stopped"
             /\ UNCHANGED <<tick_, accepted, pushDone, rejected>>
        /\ tick_' /= tick_ =>
             /\ pc["physics"] = "physics_while" /\ running
             /\ tick_' = tick_ + 1
             /\ pc'["physics"] = "push_lock"
             /\ item'["physics"] = <<tick_'>>]_vars

\* The producer has exited on a push that returned false, after pushes that
\* returned true.
C17_Witness ==
  /\ pc["physics"] = "physics_stopped"
  /\ rejected /= {}
  /\ pushDone /= <<>>

\* C18: the consumer leaves its loop only on a pop that finds the queue shut
\* down and empty or, when streaming, on a failed write; after counting an item
\* it goes back to pop whatever running is. So when the consumer has exited in
\* Simulate mode the queue is shut down and empty and every item appended, also
\* after running became false, has been popped.
C18_ConsumerExit ==
  /\ []((simulate /\ pc["network"] = "network_done") =>
          (shutdown_ /\ queue_ = <<>> /\ popped = accepted /\ popDone = popped))
  /\ [][/\ (pc'["network"] = "network_done" /\ pc["network"] /= "network_done") =>
             \/ pc["network"] = "pop_cs" /\ shutdown_ /\ queue_ = <<>> /\ ~streaming
             \/ pc["network"] = "stream_close"
        /\ (pc'["network"] = "stream_close" /\ pc["network"] /= "stream_close") =>
             \/ pc["network"] = "pop_cs" /\ shutdown_ /\ queue_ = <<>> /\ streaming
             \/ pc["network"] = "stream_write" /\ writes'.ok = writes.ok
        /\ (pc["network"] = "pop_notify" /\ pc'["network"] /= "pop_notify") =>
             pc'["network"] = IF streaming THEN "stream_write" ELSE "size"
        /\ (pc["network"] = "log_progress" /\ pc'["network"] /= "log_progress") =>
             pc'["network"] = "pop_lock"]_vars

\* The consumer has exited in Simulate mode after popping an item that was
\* appended when running was already false.
C18_Witness ==
  /\ simulate
  /\ pc["network"] = "network_done"
  /\ atFlip /= <<>>
  /\ Len(accepted) > atFlip[1].naccepted

\* C19: once running has been set to false, at most one more push takes effect
\* and at most one more push returns true.
C19_AtMostOneMorePush ==
  atFlip /= <<>> =>
    /\ Len(accepted) <= atFlip[1].naccepted + 1
    /\ Len(pushDone) <= atFlip[1].npushed + 1

\* The producer has exited after a push that was appended and returned true
\* when running was already false.
C19_Witness ==
  /\ atFlip /= <<>>
  /\ Len(accepted) = atFlip[1].naccepted + 1
  /\ Len(pushDone) = atFlip[1].npushed + 1
  /\ pc["physics"] = "physics_stopped"

\* C20 (as stated), counting an item as popped when pop removes it and a push
\* as successful when it appends: in every state sent <= popped <= successful
\* pushes <= generator invocations, popped - sent <= 1 in Simulate mode, and in
\* Live mode sent is the number of writes that succeeded.
C20_CountersAsStated ==
  /\ sent_ <= Len(popped)
  /\ Len(popped) <= Len(accepted)
  /\ Len(accepted) <= tick_
  /\ simulate => Len(popped) - sent_ <= 1
  /\ ~simulate => sent_ = writes.ok

\* C20 (amended): in every state sent <= items returned by pop <= items removed
\* by pop <= items appended by push <= generator invocations, with popped -
\* sent <= 1 in Simulate mode; in Live mode sent is the number of writes that
\* succeeded or one less, and it is that number whenever the consumer is not
\* between a write that succeeded and the counting of its item; the sent
\* counter never decreases.
C20_Counters ==
  /\ [](/\ sent_ <= Len(popDone)
        /\ Len(popDone) <= Len(popped)
        /\ Len(popped) <= Len(accepted)
        /\ Len(pushDone) <= Len(accepted)
        /\ Len(accepted) <= tick_
        /\ simulate => Len(popped) - sent_ <= 1
        /\ ~simulate =>
             /\ sent_ <= writes.ok
             /\ writes.ok <= sent_ + 1
             /\ pc["network"] \notin {"size", "log_progress"} => sent_ = writes.ok)
  /\ [][sent_' >= sent_]_vars

\* In Live mode a second write has succeeded and its item is about to be
\* counted.
C20_Witness ==
  /\ ~simulate
  /\ pc["network"] = "log_progress"
  /\ sent_ >= 1
  /\ writes.ok = sent_ + 1

====
